---- MODULE Spec2Model ----
(***************************************************************************)
(* Temperature-to-Sound converter (STM32).                                 *)
(*                                                                         *)
(* Two firmware targets are modelled:                                      *)
(*   main.ino  setup()/loop(): poll the ADC, map the sample to a           *)
(*             frequency, decide whether to retune, then generate_tone(),  *)
(*             a software phase accumulator driving analogWrite;           *)
(*   main.c    main(): poll the ADC every 100 ms, map the sample and       *)
(*             reprogram TIM2 when the frequency moved by more than 5 Hz.  *)
(*                                                                         *)
(* Representation of the oscillator phase.  The code keeps the phase as a  *)
(* double in radians and advances it by 2*PI*f*(elapsed/1000000.0).  The   *)
(* model keeps the same quantity in micro-turns: phase_model =            *)
(* phase_rad / (2*PI) * 1000000, so the increment is f * elapsed (elapsed  *)
(* in microseconds) and one period, 2*PI, is PERIOD = 1000000.  In these   *)
(* units the arithmetic of the code is exact integer arithmetic; the       *)
(* rounding of the double operations is not modelled.                      *)
(*                                                                         *)
(* Clocks.  now_us is the true time in microseconds, counted from an epoch  *)
(* at which both hardware counters read 0: the boot, or a later instant    *)
(* that is a multiple of 2^32 ms (where micros() and millis() wrap         *)
(* together); it is negative before the epoch.  micros() and millis() are  *)
(* uint32_t readings of it.  The integers of the model checker are 32-bit  *)
(* signed, so a uint32_t value v is stored as v - 2^31 (U32, Sub32).       *)
(* Every product the code computes in uint32_t or double stays below 2^31. *)
(***************************************************************************)
EXTENDS Integers, Naturals, Sequences, FiniteSets, TLC

VARIABLES
    \* ---- main.ino: globals and the position in setup()/loop()
    pc,                 \* "setup", "poll", "tone", "delay", or "idle"
    now_us,             \* true time (us) since the epoch; see Micros, Millis
    adc_value,          \* loop(): last analogRead result
    new_frequency,      \* loop(): last map_frequency result
    current_frequency,  \* global current_frequency
    last_update,        \* global last_update: a millis() reading
    \* ---- main.ino: generate_tone() statics and its output
    phase,              \* static double phase, in micro-turns
    last_time,          \* static uint32_t last_time: a micros() reading
    sine_value,         \* the 12-bit sample before the clamp of lines 153-154
    dac_out,            \* last value passed to analogWrite
    \* ---- history of the run (not program state)
    h_retuned,          \* the retune branch was taken in the last decision
    h_elapsed_ms,       \* millis() - last_update seen by the last decision
    h_prev_frequency,   \* current_frequency seen by the last decision
    h_retunes,          \* number of retunes so far, saturating at 2
    h_gap_ms,           \* time between the last two retunes
    h_static,           \* every poll so far mapped to the same frequency
    h_polled,           \* loop() has polled the sensor at least once
    h_polls,            \* number of polls so far, saturating at 2
    h_calls_at_poll,    \* h_calls when the last poll was taken
    h_between,          \* generate_tone calls between the last two polls
    h_true_update,      \* true time (ms) of the reading held in last_update
    h_true_elapsed_ms,  \* true time (ms) from that reading to the last decision
    h_calls,            \* number of generate_tone calls so far
    h_emitted,          \* the last generate_tone call wrote to the DAC
    h_wraps,            \* 2*PI subtractions performed by the last call
    h_periods,          \* end-to-end run: 2*PI subtractions of all calls so far
    h_zero_calls,       \* consecutive zero-elapsed generate_tone calls
    h_zero_phase,       \* phase before the first call of that run
    h_prev_phase,       \* phase before the last call
    h_prev_dac,         \* dac_out before the last call
    h_last_elapsed,     \* elapsed microseconds computed by the last call
    h_tone_freq,        \* current_frequency seen by the last call
    h_const,            \* every call so far saw the same current_frequency
    h_true_time,        \* true time (us) of the reading held in last_time
    h_true_elapsed_us,  \* true time (us) from that reading to the last call
    h_sum_elapsed,      \* sum of the elapsed values of all calls, modulo 1 s
    h_written,          \* some call has written a sample to the output
    h_step_us,          \* end-to-end run: the fixed step between calls
    \* ---- main.c
    c_pc,               \* "init", "loop" or "idle"
    c_current_frequency,\* volatile uint32_t current_frequency
    c_ARR,              \* TIM2->ARR
    c_adc_value,        \* main(): last ADC_Read_Temperature result
    c_new_frequency,    \* main(): last Temperature_To_Frequency result
    c_polls,            \* loop iterations completed
    c_inits,            \* TIM2_Init calls so far
    c_applied,          \* the last iteration called TIM2_Init
    c_quiet,            \* every poll so far was within 5 Hz of current_frequency
    \* ---- the two mapping functions applied to drawn inputs
    m_s1, m_s2,         \* two samples, m_s1 <= m_s2
    m_f1, m_f2,         \* map_frequency of each
    m_c1,               \* Temperature_To_Frequency(m_s1)
    m_ino_done, m_c_done

inoVars == <<pc, now_us, adc_value, new_frequency, current_frequency, last_update>>
oscVars == <<phase, last_time, sine_value, dac_out>>
loopHist == <<h_retuned, h_elapsed_ms, h_prev_frequency, h_retunes, h_gap_ms,
              h_static, h_polled, h_polls, h_calls_at_poll, h_between,
              h_true_update, h_true_elapsed_ms>>
toneHist == <<h_calls, h_emitted, h_wraps, h_periods, h_zero_calls, h_zero_phase,
              h_step_us, h_prev_phase, h_prev_dac, h_last_elapsed, h_tone_freq,
              h_const, h_true_time, h_true_elapsed_us, h_sum_elapsed,
              h_written>>
cVars == <<c_pc, c_current_frequency, c_ARR, c_adc_value, c_new_frequency,
           c_polls, c_inits, c_applied, c_quiet>>
mapVars == <<m_s1, m_s2, m_f1, m_f2, m_c1, m_ino_done, m_c_done>>
vars == <<inoVars, oscVars, loopHist, toneHist, cVars, mapVars>>

-----------------------------------------------------------------------------
(* Program constants *)

MIN_FREQ == 200
MAX_FREQ == 2000
SAMPLE_MAX == 4095
UPDATE_INTERVAL == 100
DEFAULT_FREQ == 440
HYSTERESIS == 5
UINT16_MAX == 2^16 - 1

Abs(x) == IF x < 0 THEN 0 - x ELSE x

-----------------------------------------------------------------------------
(* The mapping functions *)

\* A variant that multiplies in 16 bits (the (uint32_t) cast forgotten on a
\* target whose int is 16 bits wide).
map_frequency_16bit(adc) ==
    LET frequency == MIN_FREQ + ((adc * (MAX_FREQ - MIN_FREQ)) % 2^16) \div SAMPLE_MAX
        lo == IF frequency < MIN_FREQ THEN MIN_FREQ ELSE frequency
    IN  IF lo > MAX_FREQ THEN MAX_FREQ ELSE lo

\* A variant that divides by the number of ADC levels instead of the top level.
map_frequency_4096(adc) ==
    LET frequency == MIN_FREQ + (adc * (MAX_FREQ - MIN_FREQ)) \div (SAMPLE_MAX + 1)
        lo == IF frequency < MIN_FREQ THEN MIN_FREQ ELSE frequency
    IN  IF lo > MAX_FREQ THEN MAX_FREQ ELSE lo

\* A variant without the clamp.
map_frequency_noclamp(adc) ==
    MIN_FREQ + (adc * (MAX_FREQ - MIN_FREQ)) \div SAMPLE_MAX

\* main.ino map_frequency.  The product is at most 65535 * 1800 < 2^31, so the
\* uint32_t arithmetic does not wrap.
map_frequency(adc) ==
    LET frequency == MIN_FREQ + (adc * (MAX_FREQ - MIN_FREQ)) \div SAMPLE_MAX
        lo == IF frequency < MIN_FREQ THEN MIN_FREQ ELSE frequency
    IN  IF lo > MAX_FREQ THEN MAX_FREQ ELSE lo

\* A variant without the range check of lines 171-172.
Temperature_To_Frequency_noclamp(adc) == 200 + (adc * 1800) \div 4095

\* main.c Temperature_To_Frequency, with the literals of the source.
Temperature_To_Frequency(adc) ==
    LET frequency == 200 + (adc * 1800) \div 4095
        lo == IF frequency < 200 THEN 200 ELSE frequency
    IN  IF lo > 2000 THEN 2000 ELSE lo

-----------------------------------------------------------------------------
(* generate_tone: the phase accumulator *)

PERIOD == 1000000
CENTER == 2048
AMPLITUDE == 2047
DAC_MAX == 4095

INT32_MAX == 2147483647

\* The uint32_t reading of a counter at true time t, -2^31 <= t < 2^31 counted
\* from an instant at which the counter reads 0: t mod 2^32, stored less 2^31.
U32(t) == IF t < 0 THEN (t + INT32_MAX) + 1 ELSE (t - INT32_MAX) - 1

\* A variant that takes a reading lower than the previous one for no time
\* elapsed.
Sub32_saturating(a, b) == IF a >= b THEN a - b ELSE 0

\* Lines 130 and 74, a - b in uint32_t: (a - b) mod 2^32, as a number.  When a
\* is the lower reading the difference is 2^32 - (b - a).  (A difference of
\* 2^31 or more has no representation here; no run of the model produces one.)
Sub32(a, b) ==
    IF a >= b THEN a - b
    ELSE ((a + INT32_MAX) + 1) + (INT32_MAX - b) + 1

\* A variant that takes the elapsed microseconds for milliseconds.
phase_increment_millis(freq, elapsed) == freq * (elapsed \div 1000)

\* A variant that measures the elapsed time in whole milliseconds.
phase_increment_whole_ms(freq, elapsed) == freq * ((elapsed \div 1000) * 1000)

\* Lines 135-136: 2*PI * current_frequency * (elapsed / 1000000.0), in micro-turns.
phase_increment(freq, elapsed) == freq * elapsed

\* A variant that subtracts one period at most (if instead of while).
wrap_phase_once(p) == IF p >= PERIOD THEN p - PERIOD ELSE p

\* Lines 142-144: while (phase >= 2*PI) phase -= 2*PI.  The iterations are run
\* in blocks of 50 so that the evaluation depth stays small; every subtraction
\* of the loop is still performed one by one.
RECURSIVE wrap_block(_, _)
wrap_block(p, n) == IF n = 0 \/ p < PERIOD THEN p ELSE wrap_block(p - PERIOD, n - 1)

RECURSIVE wrap_phase(_)
wrap_phase(p) == IF p >= PERIOD THEN wrap_phase(wrap_block(p, 50)) ELSE p

\* A variant that does not test the frequency.
tone_active_any_freq(elapsed, freq) == elapsed > 0

\* Line 132: the branch that advances the phase and writes a sample.
tone_active(elapsed, freq) == elapsed > 0 /\ freq > 0

\* A variant that advances by a fixed 10 ms step whatever time has elapsed.
next_phase_fixed_step(ph, freq, elapsed) ==
    IF freq > 0 THEN wrap_phase(ph + phase_increment(freq, 10000)) ELSE ph

\* Lines 132-144: the phase after a call that saw `elapsed` microseconds.
next_phase(ph, freq, elapsed) ==
    IF tone_active(elapsed, freq)
    THEN wrap_phase(ph + phase_increment(freq, elapsed))
    ELSE ph

\* Line 150, (int16_t)(amp * sin(phase)): the value truncated toward zero.
\* sin is evaluated at 1000 points per period by Bhaskara's rational
\* approximation sin(pi*a) = 16a(1-a) / (5 - 4a(1-a)), 0 <= a <= 1, which is
\* exact at 0, 1/6, 1/2, 5/6 and 1 and within 0.2% elsewhere; the second half
\* period is the first negated.
scaled_sin(amp, p) ==
    LET H == PERIOD \div 2000
        i == p \div (PERIOD \div (2 * H))
        x == IF i < H THEN i ELSE i - H
        mag == (amp * 16 * x * (H - x)) \div (5 * H * H - 4 * x * (H - x))
    IN  IF i < H THEN mag ELSE 0 - mag

\* A variant whose amplitude is half the range.
sine_raw_2048(p) == CENTER + scaled_sin(AMPLITUDE + 1, p)

\* Line 150: int16_t sine_value = 2048 + (int16_t)(2047 * sin(phase)).
sine_raw(p) == CENTER + scaled_sin(AMPLITUDE, p)

\* Lines 153-154.
clamp_sample(v) == IF v < 0 THEN 0 ELSE IF v > DAC_MAX THEN DAC_MAX ELSE v

\* Line 159: sine_value >> 4 (the operand is never negative after the clamp).
dac_scale(v) == v \div 16

\* generate_tone() entered at true time t, when the global current_frequency
\* holds freq.
generate_tone(t, freq) ==
    LET current_time == U32(t)
        elapsed == Sub32(current_time, last_time)
        stamped == tone_active(elapsed, freq) \/ elapsed = 0
        advanced == phase + phase_increment(freq, elapsed)
    IN  /\ phase' = next_phase(phase, freq, elapsed)
        /\ IF tone_active(elapsed, freq)
           THEN /\ last_time' = current_time
                /\ sine_value' = sine_raw(phase')
                /\ dac_out' = dac_scale(clamp_sample(sine_value'))
                /\ h_wraps' = (advanced - phase') \div PERIOD
           ELSE /\ last_time' = IF elapsed = 0 THEN current_time ELSE last_time
                /\ h_wraps' = 0
                /\ UNCHANGED <<sine_value, dac_out>>
        /\ h_emitted' = tone_active(elapsed, freq)
        /\ h_calls' = h_calls + 1
        /\ h_zero_calls' = IF elapsed # 0 THEN 0
                           ELSE IF h_zero_calls < 2 THEN h_zero_calls + 1 ELSE 2
        /\ h_zero_phase' = IF elapsed # 0 THEN 0
                           ELSE IF h_zero_calls = 0 THEN phase ELSE h_zero_phase
        /\ h_prev_phase' = phase
        /\ h_prev_dac' = dac_out
        /\ h_last_elapsed' = elapsed
        /\ h_tone_freq' = freq
        /\ h_const' = (h_const /\ (h_calls = 0 \/ h_tone_freq = freq))
        /\ h_true_time' = IF stamped THEN t ELSE h_true_time
        /\ h_true_elapsed_us' = t - h_true_time
        /\ h_sum_elapsed' = (h_sum_elapsed + elapsed) % PERIOD
        /\ h_written' = (h_written \/ tone_active(elapsed, freq))

-----------------------------------------------------------------------------
(* Initial values of each group of variables *)

InoInit ==
    /\ now_us = 0 /\ adc_value = 0 /\ new_frequency = 0
    /\ current_frequency = DEFAULT_FREQ /\ last_update = U32(0)

OscInit == phase = 0 /\ last_time = U32(0) /\ sine_value = CENTER /\ dac_out = 0

LoopHistInit ==
    /\ h_retuned = FALSE /\ h_elapsed_ms = 0 /\ h_prev_frequency = DEFAULT_FREQ
    /\ h_retunes = 0 /\ h_gap_ms = 0 /\ h_static = TRUE /\ h_polled = FALSE
    /\ h_polls = 0 /\ h_calls_at_poll = 0 /\ h_between = 0
    /\ h_true_update = 0 /\ h_true_elapsed_ms = 0

ToneHistInit ==
    /\ h_calls = 0 /\ h_emitted = FALSE /\ h_wraps = 0 /\ h_periods = 0
    /\ h_zero_calls = 0 /\ h_zero_phase = 0
    /\ h_prev_phase = 0 /\ h_prev_dac = 0 /\ h_last_elapsed = 0
    /\ h_tone_freq = DEFAULT_FREQ /\ h_const = TRUE
    /\ h_true_time = 0 /\ h_true_elapsed_us = 0
    /\ h_sum_elapsed = 0 /\ h_written = FALSE

CInit ==
    /\ c_current_frequency = DEFAULT_FREQ /\ c_ARR = 0 /\ c_adc_value = 0
    /\ c_new_frequency = 0 /\ c_polls = 0 /\ c_inits = 0
    /\ c_applied = FALSE /\ c_quiet = TRUE

MapIdle ==
    /\ m_s1 = 0 /\ m_s2 = 0 /\ m_f1 = 0 /\ m_f2 = 0 /\ m_c1 = 0
    /\ m_ino_done = FALSE /\ m_c_done = FALSE

-----------------------------------------------------------------------------
(* main.ino: setup() and loop() *)

MaxLoops == 13
LoopSamples == {0, 12, 14, 546, SAMPLE_MAX}

\* The true time in milliseconds, and the millis() reading of it.
TrueMillis == now_us \div 1000
Millis == U32(TrueMillis)

\* A variant that never refreshes on the interval.
should_retune_no_interval(candidate, previous, elapsed_ms) ==
    Abs(candidate - previous) > HYSTERESIS

\* A variant whose threshold is twice as wide.
should_retune_wide(candidate, previous, elapsed_ms) ==
    \/ Abs(candidate - previous) > 2 * HYSTERESIS
    \/ elapsed_ms > UPDATE_INTERVAL

\* Lines 73-74: the condition of the retune branch.
should_retune(candidate, previous, elapsed_ms) ==
    \/ Abs(candidate - previous) > HYSTERESIS
    \/ elapsed_ms > UPDATE_INTERVAL

\* setup(): delay(1000), then set_frequency(440).
setup ==
    /\ pc = "setup"
    /\ now_us' = now_us + 1000 * 1000
    /\ current_frequency' = DEFAULT_FREQ
    /\ pc' = "poll"
    /\ UNCHANGED <<adc_value, new_frequency, last_update>>
    /\ UNCHANGED <<oscVars, loopHist, toneHist, cVars, mapVars>>

\* loop(), lines 66-86: read the sensor, map the sample, retune or not.
loop_poll(sample) ==
    LET mapped == map_frequency(sample)
        elapsed_ms == Sub32(Millis, last_update)
        retune == should_retune(mapped, current_frequency, elapsed_ms)
    IN  /\ pc = "poll"
        /\ adc_value' = sample
        /\ new_frequency' = mapped
        /\ current_frequency' = IF retune THEN mapped ELSE current_frequency
        /\ last_update' = IF retune THEN Millis ELSE last_update
        /\ pc' = "tone"
        /\ h_retuned' = retune
        /\ h_elapsed_ms' = elapsed_ms
        /\ h_prev_frequency' = current_frequency
        /\ h_retunes' = IF retune /\ h_retunes < 2 THEN h_retunes + 1 ELSE h_retunes
        /\ h_gap_ms' = IF retune THEN elapsed_ms ELSE h_gap_ms
        /\ h_static' = (h_static /\ (h_polled => mapped = new_frequency))
        /\ h_polled' = TRUE
        /\ h_polls' = IF h_polls < 2 THEN h_polls + 1 ELSE h_polls
        /\ h_calls_at_poll' = h_calls
        /\ h_between' = h_calls - h_calls_at_poll
        /\ h_true_update' = IF retune THEN TrueMillis ELSE h_true_update
        /\ h_true_elapsed_ms' = TrueMillis - h_true_update
        /\ UNCHANGED now_us
        /\ UNCHANGED <<oscVars, toneHist, cVars, mapVars>>

\* loop(), line 89.
loop_tone ==
    /\ pc = "tone"
    /\ generate_tone(now_us, current_frequency)
    /\ pc' = "delay"
    /\ UNCHANGED <<now_us, adc_value, new_frequency, current_frequency, last_update>>
    /\ UNCHANGED <<h_periods, h_step_us>>
    /\ UNCHANGED <<loopHist, cVars, mapVars>>

\* loop(), line 91: delay(10).
loop_delay ==
    /\ pc = "delay"
    /\ h_calls < MaxLoops
    /\ now_us' = now_us + 10 * 1000
    /\ pc' = "poll"
    /\ UNCHANGED <<adc_value, new_frequency, current_frequency, last_update>>
    /\ UNCHANGED <<oscVars, loopHist, toneHist, cVars, mapVars>>

Init ==
    /\ pc = "setup" /\ InoInit /\ OscInit /\ LoopHistInit /\ ToneHistInit
    /\ h_step_us = 0
    /\ c_pc = "idle" /\ CInit /\ MapIdle

Next ==
    \/ setup
    \/ \E sample \in LoopSamples : loop_poll(sample)
    \/ loop_tone
    \/ loop_delay

Spec == Init /\ [][Next]_vars

-----------------------------------------------------------------------------
(* generate_tone() driven with arbitrary elapsed times and frequencies *)

MaxToneCalls == 4
ToneFreqs == {0, MIN_FREQ, DEFAULT_FREQ, MAX_FREQ}
\* The time that passes while the frequency is 0 is seen by the next call with
\* a frequency (last_time is not rewritten), so one call can see the sum of
\* MaxToneCalls steps: up to 1 s, 2000 periods.
ToneElapsed == {0, 1250, 10 * 1000, 200 * 1000}

\* The clock advances by d, the frequency is set to freq (set_frequency), and
\* generate_tone() runs.
tone_call(d, freq) ==
    /\ h_calls < MaxToneCalls
    /\ now_us' = now_us + d
    /\ current_frequency' = freq
    /\ generate_tone(now_us + d, freq)
    /\ UNCHANGED <<pc, adc_value, new_frequency, last_update>>
    /\ UNCHANGED <<h_periods, h_step_us>>
    /\ UNCHANGED <<loopHist, cVars, mapVars>>

InitTone ==
    /\ pc = "idle" /\ InoInit /\ OscInit /\ LoopHistInit /\ ToneHistInit
    /\ h_step_us = 0
    /\ c_pc = "idle" /\ CInit /\ MapIdle

NextTone == \E d \in ToneElapsed, freq \in ToneFreqs : tone_call(d, freq)

SpecTone == InitTone /\ [][NextTone]_vars

-----------------------------------------------------------------------------
(* End to end: a constant sample, generate_tone() at a fixed rate for 1 s *)

ONE_SECOND_US == 1000 * 1000
E2ESamples == {0, SAMPLE_MAX}
E2ERates == {20, 50, 100, 125, 1000}       \* calls per second
E2EPhases == {0, PERIOD \div 2, PERIOD - 1}

\* One step of the run: the clock advances by the fixed step and
\* generate_tone() runs with the frequency mapped from the sample.
e2e_step ==
    /\ pc = "e2e"
    /\ now_us < ONE_SECOND_US
    /\ now_us' = now_us + h_step_us
    /\ generate_tone(now_us + h_step_us, current_frequency)
    /\ h_periods' = h_periods + h_wraps'
    /\ UNCHANGED <<pc, adc_value, new_frequency, current_frequency, last_update>>
    /\ UNCHANGED h_step_us
    /\ UNCHANGED <<loopHist, cVars, mapVars>>

InitE2E ==
    /\ pc = "e2e"
    /\ now_us = 0 /\ last_update = U32(0)
    /\ adc_value \in E2ESamples
    /\ new_frequency = map_frequency(adc_value)
    /\ current_frequency = new_frequency
    /\ phase \in E2EPhases /\ last_time = U32(0) /\ sine_value = CENTER
    /\ dac_out = 0
    /\ LoopHistInit /\ ToneHistInit
    /\ h_step_us \in {ONE_SECOND_US \div r : r \in E2ERates}
    /\ c_pc = "idle" /\ CInit /\ MapIdle

NextE2E == e2e_step

SpecE2E == InitE2E /\ [][NextE2E]_vars

-----------------------------------------------------------------------------
(* main.c: main() *)

TIMER_CLOCK == 84000000
MaxCPolls == 6
CSamples == {0, 546, 558, 560, SAMPLE_MAX, UINT16_MAX}

\* TIM2_Init, lines 213-214: the auto-reload value.
timer_period(frequency) == TIMER_CLOCK \div frequency - 1

\* A variant that reprograms the timer in every iteration.
c_should_update_always(candidate, previous) == TRUE

\* Line 61: the condition of the update branch.
c_should_update(candidate, previous) == Abs(candidate - previous) > 5

\* main(), lines 42-49: initialisation, TIM2_Init(440).
c_init ==
    /\ c_pc = "init"
    /\ c_ARR' = timer_period(440)
    /\ c_inits' = c_inits + 1
    /\ c_pc' = "loop"
    /\ UNCHANGED <<c_current_frequency, c_adc_value, c_new_frequency, c_polls,
                   c_applied, c_quiet>>
    /\ UNCHANGED <<inoVars, oscVars, loopHist, toneHist, mapVars>>

\* main(), lines 54-68: one iteration of the loop, Delay_ms(100) included.
c_loop(sample) ==
    LET mapped == Temperature_To_Frequency(sample)
        update == c_should_update(mapped, c_current_frequency)
    IN  /\ c_pc = "loop"
        /\ c_polls < MaxCPolls
        /\ c_adc_value' = sample
        /\ c_new_frequency' = mapped
        /\ c_current_frequency' = IF update THEN mapped ELSE c_current_frequency
        /\ c_ARR' = IF update THEN timer_period(mapped) ELSE c_ARR
        /\ c_inits' = IF update THEN c_inits + 1 ELSE c_inits
        /\ c_applied' = update
        /\ c_quiet' = (c_quiet /\ Abs(mapped - c_current_frequency) <= 5)
        /\ c_polls' = c_polls + 1
        /\ UNCHANGED c_pc
        /\ UNCHANGED <<inoVars, oscVars, loopHist, toneHist, mapVars>>

InitC ==
    /\ pc = "idle" /\ InoInit /\ OscInit /\ LoopHistInit /\ ToneHistInit
    /\ h_step_us = 0
    /\ c_pc = "init" /\ CInit /\ MapIdle

NextC ==
    \/ c_init
    \/ \E sample \in CSamples : c_loop(sample)

SpecC == InitC /\ [][NextC]_vars

-----------------------------------------------------------------------------
(* Either firmware *)

InitFirmware == Init \/ InitC

NextFirmware == Next \/ NextC

SpecFirmware == InitFirmware /\ [][NextFirmware]_vars

-----------------------------------------------------------------------------
(* main.ino: loop() across the instant at which micros() and millis() wrap *)

\* The run starts at a poll this many microseconds before the wrap, the last
\* retune having been taken this many polls before.
WrapLeads == {25 * 1000, 27296}
WrapSinceRetune == {1, 6}

InitWrap ==
    /\ pc = "poll"
    /\ now_us \in {0 - lead : lead \in WrapLeads}
    /\ adc_value \in LoopSamples
    /\ new_frequency = map_frequency(adc_value)
    /\ current_frequency = new_frequency
    /\ h_true_update \in {TrueMillis - 10 * n : n \in WrapSinceRetune}
    /\ last_update = U32(h_true_update)
    /\ phase \in {0, PERIOD \div 4} /\ sine_value = CENTER /\ dac_out = 0
    /\ h_true_time = now_us - 10 * 1000
    /\ last_time = U32(h_true_time)
    /\ h_retuned = FALSE /\ h_elapsed_ms = 0 /\ h_prev_frequency = current_frequency
    /\ h_retunes = 0 /\ h_gap_ms = 0 /\ h_static = TRUE /\ h_polled = FALSE
    /\ h_polls = 0 /\ h_calls_at_poll = 0 /\ h_between = 0
    /\ h_true_elapsed_ms = 0
    /\ h_calls = 0 /\ h_emitted = FALSE /\ h_wraps = 0 /\ h_periods = 0
    /\ h_zero_calls = 0 /\ h_zero_phase = 0
    /\ h_prev_phase = phase /\ h_prev_dac = 0 /\ h_last_elapsed = 0
    /\ h_tone_freq = current_frequency /\ h_const = TRUE
    /\ h_true_elapsed_us = 0
    /\ h_sum_elapsed = 0 /\ h_written = FALSE
    /\ h_step_us = 0
    /\ c_pc = "idle" /\ CInit /\ MapIdle

NextWrap ==
    \/ \E sample \in LoopSamples : loop_poll(sample)
    \/ loop_tone
    \/ loop_delay

SpecWrap == InitWrap /\ [][NextWrap]_vars

-----------------------------------------------------------------------------
(* The mapping functions on every 16-bit sample *)

MaxGap == 3

call_map_frequency ==
    /\ ~m_ino_done
    /\ m_f1' = map_frequency(m_s1)
    /\ m_f2' = map_frequency(m_s2)
    /\ m_ino_done' = TRUE
    /\ UNCHANGED <<m_s1, m_s2, m_c1, m_c_done>>
    /\ UNCHANGED <<inoVars, oscVars, loopHist, toneHist, cVars>>

call_Temperature_To_Frequency ==
    /\ ~m_c_done
    /\ m_c1' = Temperature_To_Frequency(m_s1)
    /\ m_c_done' = TRUE
    /\ UNCHANGED <<m_s1, m_s2, m_f1, m_f2, m_ino_done>>
    /\ UNCHANGED <<inoVars, oscVars, loopHist, toneHist, cVars>>

\* m_s1 is any uint16_t; m_s2 is a sample of the nominal range at or after it.
InitMap ==
    /\ pc = "idle" /\ InoInit /\ OscInit /\ LoopHistInit /\ ToneHistInit
    /\ h_step_us = 0
    /\ c_pc = "idle" /\ CInit
    /\ m_s1 \in 0..UINT16_MAX
    /\ m_s2 \in {s \in m_s1..(m_s1 + MaxGap) : s <= SAMPLE_MAX \/ s = m_s1}
    /\ m_f1 = 0 /\ m_f2 = 0 /\ m_c1 = 0
    /\ m_ino_done = FALSE /\ m_c_done = FALSE

NextMap ==
    \/ call_map_frequency
    \/ call_Temperature_To_Frequency

SpecMap == InitMap /\ [][NextMap]_vars

-----------------------------------------------------------------------------
(* Properties *)

\* C1: for every 16-bit sample, map_frequency and Temperature_To_Frequency
\* return a frequency within [200, 2000]; out-of-range samples are clamped.
C1_FrequencyInRange ==
    /\ m_ino_done => (MIN_FREQ <= m_f1 /\ m_f1 <= MAX_FREQ)
    /\ m_c_done => (200 <= m_c1 /\ m_c1 <= 2000)

\* C1 witness: the largest 16-bit sample has been mapped by both functions and
\* clamped to the top of the range.
C1_Witness ==
    /\ m_ino_done /\ m_c_done /\ m_s1 = UINT16_MAX
    /\ m_f1 = MAX_FREQ /\ m_c1 = MAX_FREQ

\* C2: map_frequency is monotonically non-decreasing over [0, 4095]: of two
\* samples s1 <= s2 of that range, the second maps to no lower a frequency.
\* (The pairs checked are at most MaxGap apart; monotonicity over any pair
\* follows from that of the adjacent ones.)
C2_Monotone ==
    (m_ino_done /\ m_s1 <= m_s2 /\ m_s2 <= SAMPLE_MAX) => m_f1 <= m_f2

\* C2 witness: two distinct samples mapped to distinct, ordered frequencies.
C2_Witness == m_ino_done /\ m_s1 < m_s2 /\ m_s2 <= SAMPLE_MAX /\ m_f1 < m_f2

\* C3: over [0, 4095] map_frequency is 200 + (s * 1800) / 4095 with truncating
\* division, the clamp changing nothing; 0 maps to 200, 4095 to 2000 and 2048
\* to within 1 Hz of 1100.
C3_LinearInterpolation ==
    (m_ino_done /\ m_s1 <= 4095) =>
        /\ m_f1 = 200 + (m_s1 * 1800) \div 4095
        /\ m_s1 = 0 => m_f1 = 200
        /\ m_s1 = 4095 => m_f1 = 2000
        /\ m_s1 = 2048 => Abs(m_f1 - 1100) <= 1

\* C3 witness: the mid-scale sample has been mapped.
C3_Witness == m_ino_done /\ m_s1 = 2048 /\ m_f1 = 1100

\* C4: the retune decision of loop() is true exactly when the candidate differs
\* from the previous frequency by more than 5 Hz or at least 100 ms have
\* elapsed since the last update.
C4_RetuneDecision ==
    h_polled =>
        (h_retuned <=> (\/ Abs(new_frequency - h_prev_frequency) > 5
                        \/ h_elapsed_ms >= 100))

\* C5: with a static input and a poll every 10 ms, two consecutive retunes of
\* loop() are never more than 100 ms apart.
C5_RefreshEvery100ms ==
    (h_static /\ h_retunes >= 2) => h_gap_ms <= 100

C7_PhaseWrapped == 0 <= phase /\ phase < PERIOD

\* C7 witness: the last call advanced the phase by several periods.
C7_Witness == h_emitted /\ h_wraps > 1 /\ phase > 0

\* C8: every sample generate_tone computes is within [0, 4095] before the
\* clamp, and the value passed to analogWrite is within [0, 255].
C8_OutputInRange ==
    /\ 0 <= sine_value /\ sine_value <= 4095
    /\ 0 <= dac_out /\ dac_out <= 255

\* C8 witness: a sample was written at the crest of the sine.
C8_Witness == h_emitted /\ sine_value = 4095 /\ dac_out = 255

\* C9: a generate_tone call that sees zero elapsed time leaves the phase as it
\* was; after two such calls in a row the phase is that before the first.
C9_ZeroElapsedNoOp == h_zero_calls > 0 => phase = h_zero_phase

\* C9 witness: two zero-elapsed calls in a row on an oscillator in mid-period.
C9_Witness == h_zero_calls = 2 /\ phase > 0 /\ phase = h_zero_phase

\* C10: with sample 0 (200 Hz) held constant and generate_tone called at a
\* fixed step for one second, the oscillator completes 200 periods, give or
\* take one; with sample 4095 (2000 Hz), 2000.  (The steps are those that
\* divide one second.)
C10_EndToEnd ==
    (pc = "e2e" /\ now_us = ONE_SECOND_US) =>
        /\ adc_value = 0 =>
               (current_frequency = 200 /\ Abs(h_periods - 200) <= 1)
        /\ adc_value = 4095 =>
               (current_frequency = 2000 /\ Abs(h_periods - 2000) <= 1)

\* C10 witness: one second of 2000 Hz in 100 calls.
C10_Witness ==
    /\ pc = "e2e" /\ now_us = ONE_SECOND_US /\ adc_value = 4095
    /\ h_calls = 100 /\ h_periods = 2000

\* C11: in loop(), generate_tone is invoked more than once between any two
\* consecutive sensor polls.
C11_TonesBetweenPolls == h_polls >= 2 => h_between > 1

C13_ZeroFrequencyHolds ==
    (h_calls > 0 /\ h_tone_freq = 0) =>
        /\ phase = h_prev_phase
        /\ ~h_emitted
        /\ dac_out = h_prev_dac
        /\ h_written => dac_out = dac_scale(clamp_sample(sine_raw(phase)))

\* C13 witness: a call at frequency 0 after time has passed, on an oscillator
\* in mid-period that has written a sample before.
C13_Witness ==
    /\ h_calls >= 2 /\ h_tone_freq = 0 /\ h_last_elapsed > 0
    /\ h_written /\ phase > 0 /\ dac_out > 0

\* C14: for every 16-bit sample, Temperature_To_Frequency of main.c and
\* map_frequency of main.ino return the same frequency.
C14_SameMapping == (m_ino_done /\ m_c_done) => m_f1 = m_c1

\* C14 witness: both functions applied to a sample of the nominal range and the
\* results strictly inside the frequency range.
C14_Witness ==
    /\ m_ino_done /\ m_c_done /\ m_s1 = 1000
    /\ MIN_FREQ < m_f1 /\ m_f1 < MAX_FREQ

\* C15: in both firmware loops, after the retune decision of an iteration the
\* applied frequency is within 5 Hz of the frequency mapped in that iteration,
\* and equal to it whenever the retune fired.
C15_HysteresisBound ==
    /\ h_polled =>
           /\ Abs(current_frequency - new_frequency) <= 5
           /\ h_retuned => current_frequency = new_frequency
    /\ c_polls > 0 =>
           /\ Abs(c_current_frequency - c_new_frequency) <= 5
           /\ c_applied => c_current_frequency = c_new_frequency

\* C15 witness: an iteration of loop() that did not retune and left the applied
\* frequency exactly 5 Hz from the mapped one.
C15_Witness ==
    /\ pc = "tone" /\ ~h_retuned
    /\ Abs(current_frequency - new_frequency) = 5

\* C16: in every state of either firmware current_frequency is within
\* [200, 2000]; generate_tone never sees frequency 0, and TIM2_Init always
\* programs 84000000 / current_frequency - 1, between 41999 and 419999.
C16_FrequencyAlwaysValid ==
    /\ MIN_FREQ <= current_frequency /\ current_frequency <= MAX_FREQ
    /\ 200 <= c_current_frequency /\ c_current_frequency <= 2000
    /\ h_calls > 0 => (MIN_FREQ <= h_tone_freq /\ h_tone_freq <= MAX_FREQ)
    /\ c_inits > 0 =>
           /\ c_ARR = 84000000 \div c_current_frequency - 1
           /\ 41999 <= c_ARR /\ c_ARR <= 419999

\* C16 witness: main.c reprogrammed the timer for an out-of-range sample,
\* clamped to 2000 Hz.
C16_Witness ==
    /\ c_inits > 1 /\ c_adc_value = UINT16_MAX /\ c_applied /\ c_ARR = 41999

\* C17: the elapsed times loop() and generate_tone compute as uint32_t
\* differences are the true elapsed times, also when the counters wrap between
\* the two readings; the phase advances by the true interval and the interval
\* retune fires exactly when the true interval exceeds UPDATE_INTERVAL.
C17_WrapSafe ==
    /\ h_calls > 0 =>
           /\ h_last_elapsed = h_true_elapsed_us
           /\ phase = (h_prev_phase + h_tone_freq * h_true_elapsed_us) % PERIOD
    /\ h_polled =>
           /\ h_elapsed_ms = h_true_elapsed_ms
           /\ h_retuned <=> (\/ Abs(new_frequency - h_prev_frequency) > 5
                             \/ h_true_elapsed_ms > UPDATE_INTERVAL)

\* C17 witness: the first iteration after the wrap; its generate_tone call and
\* its retune decision both compared a reading taken after the wrap with one
\* taken before it, and no retune was due.
C17_Witness ==
    /\ pc = "delay" /\ now_us >= 0
    /\ h_true_time - h_true_elapsed_us < 0 /\ h_last_elapsed = 10 * 1000
    /\ h_true_update < 0 /\ ~h_retuned /\ h_elapsed_ms > 0
    /\ last_time < last_update

\* C18: the first iteration of loop() always retunes, and the decision comes
\* before generate_tone in every iteration, so every generate_tone call uses a
\* frequency mapped from a sample that was read, never the start-up default.
C18_FirstIterationRetunes ==
    /\ h_polls = 1 => (h_retuned /\ h_elapsed_ms = 1000)
    /\ h_polled => h_retunes >= 1
    /\ (pc = "tone" \/ h_calls > 0) => (h_polled /\ h_retunes >= 1)
    /\ h_calls > 0 => h_tone_freq \in {map_frequency(sample) : sample \in LoopSamples}

\* C18 witness: the first sample maps to 440 Hz itself; the first iteration has
\* retuned all the same (on the interval) and generate_tone has run.
C18_Witness ==
    /\ h_polls = 1 /\ h_retuned /\ new_frequency = DEFAULT_FREQ
    /\ h_calls = 1 /\ h_tone_freq = DEFAULT_FREQ

====
